---- MODULE Spec2Model ----
(***************************************************************************)
(* Model of src/ffmpeg.py: a command-line wrapper that probes the duration *)
(* of every audio file with ffprobe, builds an ffmpeg argument list and a  *)
(* filter-graph expression, and runs ffmpeg once.                          *)
(*                                                                         *)
(* Strings are sequences of one-character strings, so that escaping and    *)
(* formatting are computed character by character as Python computes      *)
(* them.  A float is held as a number of tenths of a second.               *)
(***************************************************************************)
EXTENDS Integers, Sequences, FiniteSets, TLC

\* ------------------------------------------------------------- bounds
\* Longest image / audio sequence given on the command line.
MaxFiles == 3
\* Longest overlay text enumerated for the text-escaping specification.
MaxTextLen == 3
\* Longest font path enumerated for the font-escaping specification.
MaxFontLen == 3

\* exit_status before the interpreter has exited.
NotExited == -1

VARIABLES
    image_paths,            \* create_slideshow parameter
    audio_paths,            \* create_slideshow parameter
    font_file,              \* create_slideshow parameter
    text_content,           \* create_slideshow parameter
    pc,                     \* position of the single thread of control
    audio_durations,        \* list built by the probe loop
    ffmpeg_command,         \* argument list handed to subprocess.run
    filter_complex,         \* the filter-graph expression
    escaped_text_content,   \* local of create_slideshow
    escaped_font_file,      \* local of create_slideshow
    running,                \* number of child processes alive
    invocations,            \* history: every subprocess.run call, in order
    stderr,                 \* diagnostics written to sys.stderr, in order
    exit_status,            \* exit status of the interpreter
    probe_log,              \* history: outcome of every get_duration call
    encode_exc              \* history: outcome of the ffmpeg subprocess.run

vars == <<image_paths, audio_paths, font_file, text_content, pc,
          audio_durations, ffmpeg_command, filter_complex,
          escaped_text_content, escaped_font_file, running, invocations,
          stderr, exit_status, probe_log, encode_exc>>

\* ------------------------------------------------------- string helpers
Digits == <<"0", "1", "2", "3", "4", "5", "6", "7", "8", "9">>

\* str(n) for a non-negative int, as an f-string {i} formats it.
RECURSIVE IntStr(_)
IntStr(n) ==
    IF n < 10 THEN <<Digits[n + 1]>>
    ELSE IntStr(n \div 10) \o <<Digits[(n % 10) + 1]>>

\* ''.join(parts)
RECURSIVE Join(_)
Join(parts) ==
    IF parts = <<>> THEN <<>> ELSE Head(parts) \o Join(Tail(parts))

\* s.replace(old, new) for a one-character old: left to right, every
\* occurrence, the replacement text is not rescanned.
RECURSIVE Replace(_, _, _)
Replace(s, old, new) ==
    IF s = <<>> THEN <<>>
    ELSE (IF Head(s) = old THEN new ELSE <<Head(s)>>)
         \o Replace(Tail(s), old, new)

\* All strings over alphabet of length at most n.
RECURSIVE StringsUpTo(_, _)
StringsUpTo(alphabet, n) ==
    IF n = 0 THEN {<<>>}
    ELSE LET shorter == StringsUpTo(alphabet, n - 1)
         IN  shorter \cup {Append(s, c) : s \in shorter, c \in alphabet}

\* ------------------------------------------------------- float <-> str
DigitValue(c) == CHOOSE d \in 0..9 : Digits[d + 1] = c
IsDigit(c) == \E d \in 1..10 : Digits[d] = c

RECURSIVE DigitsValue(_)
DigitsValue(s) ==
    IF s = <<>> THEN 0
    ELSE 10 * DigitsValue(SubSeq(s, 1, Len(s) - 1)) + DigitValue(s[Len(s)])

\* float(s) for the decimal notation ffprobe prints ("7.500000"): digits, an
\* optional point and fraction digits.  The value is in tenths; the sample
\* outputs carry no digit below the tenths.  Anything else is a ValueError.
ParseFloat(s) ==
    LET dots == {p \in 1..Len(s) : s[p] = "."}
        dot  == IF dots = {} THEN Len(s) + 1 ELSE CHOOSE p \in dots : TRUE
        int  == SubSeq(s, 1, dot - 1)
        frac == SubSeq(s, dot + 1, Len(s))
        wellFormed ==
            /\ Cardinality(dots) <= 1
            /\ Len(int) + Len(frac) >= 1
            /\ \A p \in 1..Len(int) : IsDigit(int[p])
            /\ \A p \in 1..Len(frac) : IsDigit(frac[p])
    IN  IF wellFormed
        THEN [ok |-> TRUE,
              tenths |-> 10 * DigitsValue(int)
                         + (IF frac = <<>> THEN 0 ELSE DigitValue(frac[1]))]
        ELSE [ok |-> FALSE, tenths |-> 0]

\* str(duration) for a float holding a whole number of tenths: "5.0", "7.5".
StrFloat(tenths) == IntStr(tenths \div 10) \o <<".">> \o IntStr(tenths % 10)

\* -------------------------------------------------------------- inputs
ImagePath(i) == <<"i", "m", "g">> \o IntStr(i)
AudioPath(i) == <<"a", "u", "d">> \o IntStr(i)
output_path == <<"o", "u", "t", ".", "m", "p", "4">>

ImagePathLists == {[i \in 1..n |-> ImagePath(i - 1)] : n \in 0..MaxFiles}
AudioPathLists == {[i \in 1..n |-> AudioPath(i - 1)] : n \in 0..MaxFiles}

\* Overlay texts and font paths the pipeline is run with.
PipelineTexts ==
    { <<"H", "i", ":", "t", "h", "e", "r", "e">>,
      <<"a", ";", " ">>,
      <<>> }
PipelineFonts ==
    { <<"f", ".", "t", "t", "f">>,
      <<"m", "y", " ", "f", "'", "s">> }

\* ------------------------------------------------- the probe's stdout
\* What ffprobe may print when it exits 0, as json.loads and the two
\* subscripts of line 19 see it.
Stdout(json, top, has_format, format, has_duration, duration_type, duration) ==
    [json |-> json, top |-> top, has_format |-> has_format, format |-> format,
     has_duration |-> has_duration, duration_type |-> duration_type,
     duration |-> duration]

ProbeStdouts ==
    << \* {"format": {"duration": "5.000000"}}
       Stdout(TRUE, "object", TRUE, "object", TRUE, "string",
              <<"5", ".", "0", "0", "0", "0", "0", "0">>),
       \* {"format": {"duration": "7.500000"}}
       Stdout(TRUE, "object", TRUE, "object", TRUE, "string",
              <<"7", ".", "5", "0", "0", "0", "0", "0">>),
       \* not JSON at all (empty or truncated output)
       Stdout(FALSE, "object", FALSE, "object", FALSE, "string", <<>>),
       \* {}
       Stdout(TRUE, "object", FALSE, "object", FALSE, "string", <<>>),
       \* {"format": {}}
       Stdout(TRUE, "object", TRUE, "object", FALSE, "string", <<>>),
       \* {"format": {"duration": "N/A"}}
       Stdout(TRUE, "object", TRUE, "object", TRUE, "string",
              <<"N", "/", "A">>),
       \* []
       Stdout(TRUE, "array", FALSE, "object", FALSE, "string", <<>>),
       \* {"format": {"duration": null}}
       Stdout(TRUE, "object", TRUE, "object", TRUE, "null", <<>>) >>

\* Lines 18-19: json.loads(result.stdout), metadata['format']['duration'],
\* float(...).  The exception raised, or "none" and the duration.
ParseProbeOutput(out) ==
    LET f == ParseFloat(out.duration)
        raise(e) == [exc |-> e, duration |-> 0]
    IN  IF ~out.json THEN raise("JSONDecodeError")
        ELSE IF out.top # "object" THEN raise("TypeError")
        ELSE IF ~out.has_format THEN raise("KeyError")
        ELSE IF out.format # "object" THEN raise("TypeError")
        ELSE IF ~out.has_duration THEN raise("KeyError")
        ELSE IF out.duration_type # "string" THEN raise("TypeError")
        ELSE IF ~f.ok THEN raise("ValueError")
        ELSE [exc |-> "none", duration |-> f.tenths]

\* The except clauses of get_duration (lines 21-30): the diagnostic each
\* one prints.  No clause matches ValueError, TypeError or an OSError other
\* than FileNotFoundError.
GetDurationHandles(exc) ==
    exc \in {"FileNotFoundError", "CalledProcessError",
             "JSONDecodeError", "KeyError"}

GetDurationDiagnostic(exc, filepath) ==
    CASE exc = "FileNotFoundError" ->
            [msg |-> "ffprobe not found", file |-> <<>>, exc |-> exc]
      [] exc = "CalledProcessError" ->
            [msg |-> "Error running ffprobe on", file |-> filepath, exc |-> exc]
      [] exc \in {"JSONDecodeError", "KeyError"} ->
            [msg |-> "Error parsing ffprobe output for", file |-> filepath,
             exc |-> exc]

\* An exception no except clause catches leaves create_slideshow and the
\* module body: the interpreter prints a traceback and exits with status 1.
Traceback(exc) == [msg |-> "Traceback", file |-> <<>>, exc |-> exc]

\* ----------------------------------------------------------------- Init
Init ==
    /\ image_paths \in ImagePathLists
    /\ audio_paths \in AudioPathLists
    /\ font_file \in PipelineFonts
    /\ text_content \in PipelineTexts
    /\ pc = "validate"
    /\ audio_durations = <<>>
    /\ ffmpeg_command = <<>>
    /\ filter_complex = <<>>
    /\ escaped_text_content = <<>>
    /\ escaped_font_file = <<>>
    /\ running = 0
    /\ invocations = <<>>
    /\ stderr = <<>>
    /\ exit_status = NotExited
    /\ probe_log = <<>>
    /\ encode_exc = "not run"

num_files == Len(image_paths)

\* sys.exit(1) after printing diag, or an uncaught exception.
Exit(status, diags) ==
    /\ pc' = "done"
    /\ exit_status' = status
    /\ stderr' = stderr \o diags

\* ------------------------------------------------------------ the probe
\* What follows the probe of audio file number k (0-based): the next
\* iteration of the loop of lines 51-54, or the code after the loop.
AfterProbes(k) == IF k < Len(audio_paths) THEN "probe" ELSE "build"

\* Validate without the comparison of the two lengths (line 40 dropped).
ValidateWithoutLengthCheck ==
    /\ pc = "validate"
    /\ IF num_files = 0
       THEN Exit(1, <<[msg |-> "No input files provided",
                       file |-> <<>>, exc |-> "none"]>>)
       ELSE /\ pc' = AfterProbes(0)
            /\ UNCHANGED <<exit_status, stderr>>
    /\ UNCHANGED <<image_paths, audio_paths, font_file, text_content,
                   audio_durations, ffmpeg_command, filter_complex,
                   escaped_text_content, escaped_font_file, running,
                   invocations, probe_log, encode_exc>>

\* Lines 38-46: the two precondition checks.
Validate ==
    /\ pc = "validate"
    /\ IF num_files # Len(audio_paths)
       THEN Exit(1, <<[msg |-> "number of image files and audio files must be the same",
                       file |-> <<>>, exc |-> "none"]>>)
       ELSE IF num_files = 0
       THEN Exit(1, <<[msg |-> "No input files provided",
                       file |-> <<>>, exc |-> "none"]>>)
       ELSE /\ pc' = AfterProbes(0)
            /\ UNCHANGED <<exit_status, stderr>>
    /\ UNCHANGED <<image_paths, audio_paths, font_file, text_content,
                   audio_durations, ffmpeg_command, filter_complex,
                   escaped_text_content, escaped_font_file, running,
                   invocations, probe_log, encode_exc>>

\* OnProbeError that reports the error and goes on with a duration of 0.0
\* instead of calling sys.exit(1).
OnProbeErrorContinue(exc, filepath, out) ==
    /\ probe_log' = Append(probe_log,
                           [file |-> filepath, exc |-> exc, stdout |-> out])
    /\ stderr' = Append(stderr, IF GetDurationHandles(exc)
                                THEN GetDurationDiagnostic(exc, filepath)
                                ELSE Traceback(exc))
    /\ audio_durations' = Append(audio_durations, 0)
    /\ pc' = AfterProbes(Len(audio_durations) + 1)
    /\ UNCHANGED exit_status

\* get_duration raising exc while probing filepath (lines 21-30): a caught
\* exception prints its diagnostic and calls sys.exit(1); any other one
\* propagates out of create_slideshow.
OnProbeError(exc, filepath, out) ==
    /\ probe_log' = Append(probe_log,
                           [file |-> filepath, exc |-> exc, stdout |-> out])
    /\ Exit(1, <<IF GetDurationHandles(exc)
                 THEN GetDurationDiagnostic(exc, filepath)
                 ELSE Traceback(exc)>>)
    /\ UNCHANGED audio_durations

\* Line 17, first half: subprocess.run starts ffprobe on the next audio
\* file.  The executable may be missing (FileNotFoundError) or not
\* startable (another OSError, here PermissionError); no child exists then.
ProbeSpawn ==
    /\ pc = "probe"
    /\ LET filepath == audio_paths[Len(audio_durations) + 1]
       IN  /\ invocations' = Append(invocations,
                                    [tool |-> "ffprobe", file |-> filepath])
           /\ \/ /\ pc' = "probing"
                 /\ running' = running + 1
                 /\ UNCHANGED <<exit_status, stderr, probe_log, audio_durations>>
              \/ \E exc \in {"FileNotFoundError", "PermissionError"} :
                    /\ OnProbeError(exc, filepath, 0)
                    /\ UNCHANGED running
    /\ UNCHANGED <<image_paths, audio_paths, font_file, text_content,
                   ffmpeg_command, filter_complex, escaped_text_content,
                   escaped_font_file, encode_exc>>

\* Line 17, second half, to line 20 and line 54: ffprobe terminates.  A
\* non-zero status raises CalledProcessError (check=True); otherwise its
\* stdout is parsed and the duration appended.
ProbeReturn ==
    /\ pc = "probing"
    /\ running' = running - 1
    /\ LET k == Len(audio_durations)
           filepath == audio_paths[k + 1]
       IN  \/ OnProbeError("CalledProcessError", filepath, 0)
           \/ \E o \in DOMAIN ProbeStdouts :
                LET r == ParseProbeOutput(ProbeStdouts[o])
                IN  IF r.exc = "none"
                    THEN /\ audio_durations' = Append(audio_durations, r.duration)
                         /\ probe_log' = Append(probe_log,
                                [file |-> filepath, exc |-> "none", stdout |-> o])
                         /\ pc' = AfterProbes(k + 1)
                         /\ UNCHANGED <<exit_status, stderr>>
                    ELSE OnProbeError(r.exc, filepath, o)
    /\ UNCHANGED <<image_paths, audio_paths, font_file, text_content,
                   ffmpeg_command, filter_complex, escaped_text_content,
                   escaped_font_file, invocations, encode_exc>>

\* --------------------------------------------------------------- escaping
\* shlex.quote (Python standard library), called on line 77: the empty
\* string becomes '', a string of safe characters is returned as it is, any
\* other string is wrapped in apostrophes with each apostrophe of it
\* written '"'"'.
ShlexSafeChars ==
    {
      "a", "b", "c", "d", "e", "f", "g", "h", "i", "j", "k", "l", "m", "n",
      "o", "p", "q", "r", "s", "t", "u", "v", "w", "x", "y", "z", "A", "B",
      "C", "D", "E", "F", "G", "H", "I", "J", "K", "L", "M", "N", "O", "P",
      "Q", "R", "S", "T", "U", "V", "W", "X", "Y", "Z", "0", "1", "2", "3",
      "4", "5", "6", "7", "8", "9", "_", "@", "%", "+", "=", ":", ",", ".",
      "/", "-" }

ShlexQuote(s) ==
    IF s = <<>> THEN <<"'", "'">>
    ELSE IF \A p \in 1..Len(s) : s[p] \in ShlexSafeChars THEN s
    ELSE <<"'">> \o Replace(s, "'", <<"'", "\"", "'", "\"", "'">>) \o <<"'">>

\* Line 77 with the two replace calls in the other order.
EscapeFontFileApostropheFirst(font) ==
    Replace(Replace(ShlexQuote(font), "'", <<"\\", "'">>),
            "\\", <<"\\", "\\">>)

\* Line 77.
EscapeFontFile(font) ==
    Replace(Replace(ShlexQuote(font), "\\", <<"\\", "\\">>),
            "'", <<"\\", "'">>)

\* Line 78 with a sixth replace call that doubles every backslash.
EscapeTextContentBackslashToo(text) ==
    Replace(Replace(Replace(Replace(Replace(Replace(text,
        "'", <<"\\", "'">>),
        ":", <<"\\", ":">>),
        "[", <<"\\", "[">>),
        "]", <<"\\", "]">>),
        ",", <<"\\", ",">>),
        "\\", <<"\\", "\\">>)

\* Line 78.
EscapeTextContent(text) ==
    Replace(Replace(Replace(Replace(Replace(text,
        "'", <<"\\", "'">>),
        ":", <<"\\", ":">>),
        "[", <<"\\", "[">>),
        "]", <<"\\", "]">>),
        ",", <<"\\", ",">>)

\* ------------------------------------------------------ the command line
Arg_ffmpeg == <<"f", "f", "m", "p", "e", "g">>
Arg_loop == <<"-", "l", "o", "o", "p">>
Arg_one == <<"1">>
Arg_t == <<"-", "t">>
Arg_i == <<"-", "i">>
Arg_filter_complex == <<"-", "f", "i", "l", "t", "e", "r", "_", "c", "o", "m", "p", "l", "e", "x">>

\* Lines 61-62 pairing image i with the duration of the audio file counted
\* from the end.
ImageInputsReversedDurations(images, durations) ==
    Join([i \in 1..Len(images) |->
            <<Arg_loop, Arg_one, Arg_t,
              StrFloat(durations[Len(durations) - i + 1]), Arg_i,
              images[i]>>])

\* Lines 61-62: one declaration per image, six arguments each.
ImageInputs(images, durations) ==
    Join([i \in 1..Len(images) |->
            <<Arg_loop, Arg_one, Arg_t, StrFloat(durations[i]), Arg_i,
              images[i]>>])

\* Lines 65-66: one declaration per audio file, two arguments each.
AudioInputs(audios) ==
    Join([i \in 1..Len(audios) |-> <<Arg_i, audios[i]>>])

\* Line 72.
VideoConcatInputs(n) ==
    Join([i \in 1..n |-> <<"[">> \o IntStr(i - 1) \o <<":", "v", "]">>])

\* Line 73 without the offset num_files.
AudioConcatInputsWithoutOffset(n) ==
    Join([i \in 1..n |-> <<"[">> \o IntStr(i - 1) \o <<":", "a", "]">>])

\* Line 73.
AudioConcatInputs(n) ==
    Join([i \in 1..n |-> <<"[">> \o IntStr(n + (i - 1)) \o <<":", "a", "]">>])

\* The five characters between "[v_text][a_combined] " and "=shortest=1"
\* on line 85, which are not ASCII: each is written as its code point.
MergeFilterName == <<"U+0BB5", "U+0BBF", "U+0B95", "U+0BBF", "U+0BA4">>

\* Line 82.
VideoConcatClause(n) ==
    VideoConcatInputs(n)
    \o <<
        "c", "o", "n", "c", "a", "t", "=", "n", "=" >> \o IntStr(n)
    \o <<
        ":", "v", "=", "1", ":", "a", "=", "0", "[", "v", "_", "s", "l",
        "i", "d", "e", "s", "h", "o", "w", "]" >>
    \o <<";", " ">>

\* Line 83.
AudioConcatClause(n) ==
    AudioConcatInputs(n)
    \o <<
        "c", "o", "n", "c", "a", "t", "=", "n", "=" >> \o IntStr(n)
    \o <<
        ":", "v", "=", "0", ":", "a", "=", "1", "[", "a", "_", "c", "o",
        "m", "b", "i", "n", "e", "d", "]" >>
    \o <<";", " ">>

\* Line 84.
DrawtextClause(etext, efont) ==
    <<
        "[", "v", "_", "s", "l", "i", "d", "e", "s", "h", "o", "w", "]",
        "d", "r", "a", "w", "t", "e", "x", "t", "=", "t", "e", "x", "t",
        "=", "'" >>
    \o etext
    \o <<
        "'", ":", "f", "o", "n", "t", "f", "i", "l", "e", "=", "'" >>
    \o efont
    \o <<
        "'", ":", "f", "o", "n", "t", "s", "i", "z", "e", "=", "4", "8",
        ":", "f", "o", "n", "t", "c", "o", "l", "o", "r", "=", "w", "h",
        "i", "t", "e", ":", "x", "=", "(", "w", "-", "t", "e", "x", "t",
        "_", "w", ")", "/", "2", ":", "y", "=", "(", "h", "-", "t", "e",
        "x", "t", "_", "h", ")", "/", "2", "[", "v", "_", "t", "e", "x",
        "t", "]" >>
    \o <<";", " ">>

\* Line 85.
MergeClause ==
    <<
        "[", "v", "_", "t", "e", "x", "t", "]", "[", "a", "_", "c", "o",
        "m", "b", "i", "n", "e", "d", "]", " " >>
    \o MergeFilterName
    \o <<
        "=", "s", "h", "o", "r", "t", "e", "s", "t", "=", "1" >>

\* Lines 81-86 with the audio clause put before the video clause.
FilterComplexAudioFirst(n, etext, efont) ==
    AudioConcatClause(n) \o VideoConcatClause(n)
    \o DrawtextClause(etext, efont) \o MergeClause

\* Lines 81-86.
FilterComplex(n, etext, efont) ==
    VideoConcatClause(n) \o AudioConcatClause(n)
    \o DrawtextClause(etext, efont) \o MergeClause

\* Lines 91-100.
OutputOptions ==
    << <<"-", "c", ":", "v">>,
       <<"l", "i", "b", "x", "2", "6", "4">>,
       <<"-", "p", "r", "e", "s", "e", "t">>,
       <<"m", "e", "d", "i", "u", "m">>,
       <<"-", "c", "r", "f">>,
       <<"2", "3">>,
       <<"-", "c", ":", "a">>,
       <<"a", "a", "c">>,
       <<"-", "b", ":", "a">>,
       <<"1", "2", "8", "k">>,
       <<"-", "s", "h", "o", "r", "t", "e", "s", "t">>,
       <<"-", "y">>,
       output_path >>

\* Lines 58-100: the argument list and the filter expression.
BuildCommand ==
    /\ pc = "build"
    /\ escaped_font_file' = EscapeFontFile(font_file)
    /\ escaped_text_content' = EscapeTextContent(text_content)
    /\ filter_complex' = FilterComplex(num_files, escaped_text_content',
                                       escaped_font_file')
    /\ ffmpeg_command' = <<Arg_ffmpeg>>
                         \o ImageInputs(image_paths, audio_durations)
                         \o AudioInputs(audio_paths)
                         \o <<Arg_filter_complex, filter_complex'>>
                         \o OutputOptions
    /\ pc' = "encode"
    /\ UNCHANGED <<image_paths, audio_paths, font_file, text_content,
                   audio_durations, running, invocations, stderr,
                   exit_status, probe_log, encode_exc>>

\* ------------------------------------------------------------ the encode
\* The except clauses of lines 115-125; the last one catches every
\* Exception.
EncodeDiagnostic(exc) ==
    CASE exc = "FileNotFoundError" ->
            [msg |-> "ffmpeg not found", file |-> <<>>, exc |-> exc]
      [] exc = "CalledProcessError" ->
            [msg |-> "Error running FFmpeg command", file |-> <<>>, exc |-> exc]
      [] OTHER ->
            [msg |-> "An unexpected error occurred", file |-> <<>>, exc |-> exc]

\* OnEncodeError that prints the diagnostic and lets the script end
\* normally (no sys.exit(1)).
OnEncodeErrorSwallowed(exc) ==
    /\ encode_exc' = exc
    /\ Exit(0, <<EncodeDiagnostic(exc)>>)

\* OnEncodeError that prints the diagnostic and runs ffmpeg again.
OnEncodeErrorRetry(exc) ==
    /\ encode_exc' = exc
    /\ pc' = "encode"
    /\ stderr' = Append(stderr, EncodeDiagnostic(exc))
    /\ UNCHANGED exit_status

\* The encode raising exc: its diagnostic, then sys.exit(1).
OnEncodeError(exc) ==
    /\ encode_exc' = exc
    /\ Exit(1, <<EncodeDiagnostic(exc)>>)

\* Line 109, first half: subprocess.run starts ffmpeg, or fails to.
EncodeSpawn ==
    /\ pc = "encode"
    /\ invocations' = Append(invocations, [tool |-> "ffmpeg", file |-> <<>>])
    /\ \/ /\ pc' = "encoding"
          /\ running' = running + 1
          /\ UNCHANGED <<exit_status, stderr, encode_exc>>
       \/ \E exc \in {"FileNotFoundError", "PermissionError"} :
             /\ OnEncodeError(exc)
             /\ UNCHANGED running
    /\ UNCHANGED <<image_paths, audio_paths, font_file, text_content,
                   audio_durations, ffmpeg_command, filter_complex,
                   escaped_text_content, escaped_font_file, probe_log>>

\* Line 109, second half, to line 125: ffmpeg terminates.  Status 0 lets
\* create_slideshow return and the script end with status 0.
EncodeReturn ==
    /\ pc = "encoding"
    /\ running' = running - 1
    /\ \/ /\ encode_exc' = "none"
          /\ Exit(0, <<>>)
       \/ OnEncodeError("CalledProcessError")
    /\ UNCHANGED <<image_paths, audio_paths, font_file, text_content,
                   audio_durations, ffmpeg_command, filter_complex,
                   escaped_text_content, escaped_font_file, invocations,
                   probe_log>>

Next ==
    \/ Validate
    \/ ProbeSpawn
    \/ ProbeReturn
    \/ BuildCommand
    \/ EncodeSpawn
    \/ EncodeReturn

Spec == Init /\ [][Next]_vars

\* ------------------------------------------- the escaping rules alone
\* Line 78 applied to every text over the characters it treats specially,
\* the backslash and one ordinary character.
TextAlphabet == {"a", "'", ":", "[", "]", ",", "\\"}

\* Line 77 applied to every font path over a safe character, the path
\* separator, a space, the apostrophe and the backslash.
FontAlphabet == {"f", "/", " ", "'", "\\"}

\* Everything of the run that evaluating one escaping expression leaves
\* untouched.
NoRun ==
    /\ image_paths = <<>>
    /\ audio_paths = <<>>
    /\ audio_durations = <<>>
    /\ ffmpeg_command = <<>>
    /\ filter_complex = <<>>
    /\ running = 0
    /\ invocations = <<>>
    /\ stderr = <<>>
    /\ exit_status = NotExited
    /\ probe_log = <<>>
    /\ encode_exc = "not run"

InitText ==
    /\ NoRun
    /\ text_content \in StringsUpTo(TextAlphabet, MaxTextLen)
    /\ font_file = <<>>
    /\ escaped_text_content = <<>>
    /\ escaped_font_file = <<>>
    /\ pc = "escape text"

\* Line 78, evaluated.
EscapeTextStep ==
    /\ pc = "escape text"
    /\ escaped_text_content' = EscapeTextContent(text_content)
    /\ pc' = "escaped"
    /\ UNCHANGED <<image_paths, audio_paths, font_file, text_content,
                   audio_durations, ffmpeg_command, filter_complex,
                   escaped_font_file, running, invocations, stderr,
                   exit_status, probe_log, encode_exc>>

SpecText == InitText /\ [][EscapeTextStep]_vars

InitFont ==
    /\ NoRun
    /\ font_file \in StringsUpTo(FontAlphabet, MaxFontLen)
    /\ text_content = <<>>
    /\ escaped_text_content = <<>>
    /\ escaped_font_file = <<>>
    /\ pc = "escape font"

\* Line 77, evaluated.
EscapeFontStep ==
    /\ pc = "escape font"
    /\ escaped_font_file' = EscapeFontFile(font_file)
    /\ pc' = "escaped"
    /\ UNCHANGED <<image_paths, audio_paths, font_file, text_content,
                   audio_durations, ffmpeg_command, filter_complex,
                   escaped_text_content, running, invocations, stderr,
                   exit_status, probe_log, encode_exc>>

SpecFont == InitFont /\ [][EscapeFontStep]_vars

\* ===================================================================
\* Properties
\* ===================================================================
StartsWith(s, prefix) ==
    Len(s) >= Len(prefix) /\ SubSeq(s, 1, Len(prefix)) = prefix
EndsWith(s, suffix) ==
    Len(s) >= Len(suffix)
    /\ SubSeq(s, Len(s) - Len(suffix) + 1, Len(s)) = suffix
Contains(s, part) ==
    \E p \in 1..(Len(s) - Len(part) + 1) :
        SubSeq(s, p, p + Len(part) - 1) = part

InputsInvalid ==
    Len(image_paths) # Len(audio_paths) \/ Len(image_paths) = 0
Built == ffmpeg_command # <<>>

\* Positions of the "-i" arguments of an argument list, and the one of
\* input index k (0-based).
InputPositions(cmd) == {p \in 1..(Len(cmd) - 1) : cmd[p] = <<"-", "i">>}
NthInput(cmd, k) ==
    CHOOSE p \in InputPositions(cmd) :
        Cardinality({q \in InputPositions(cmd) : q < p}) = k
\* An image declaration is "-loop 1 -t <seconds> -i <path>".
IsImageDeclaration(cmd, p) ==
    /\ p >= 5
    /\ cmd[p - 4] = <<"-", "l", "o", "o", "p">>
    /\ cmd[p - 3] = <<"1">>
    /\ cmd[p - 2] = <<"-", "t">>

\* C1: when the image and audio sequences differ in length, or both are
\* empty, the run ends with exit status 1 straight from validation and
\* subprocess.run is never called: no probe, no encode, no child process.
C1_InvalidInputsAbortBeforeAnySpawn ==
    InputsInvalid =>
        /\ invocations = <<>>
        /\ running = 0
        /\ probe_log = <<>>
        /\ encode_exc = "not run"
        /\ pc \in {"validate", "done"}
        /\ pc = "done" => exit_status = 1

C1_Witness ==
    /\ pc = "done"
    /\ Len(image_paths) = 3
    /\ Len(audio_paths) = 2
    /\ exit_status = 1

\* C2: once the probe of the audio file at position k has failed (missing
\* or unstartable binary, non-zero exit, unusable output), the run is over
\* with exit status 1; the calls made are exactly the probes of positions
\* 0..k, so no later audio file is probed and ffmpeg is never invoked.
C2_ProbeFailureIsFailFast ==
    \A j \in 1..Len(probe_log) :
        probe_log[j].exc # "none" =>
            /\ pc = "done"
            /\ exit_status = 1
            /\ running = 0
            /\ Len(probe_log) = j
            /\ Len(invocations) = j
            /\ \A m \in 1..j :
                  invocations[m] = [tool |-> "ffprobe", file |-> audio_paths[m]]
            /\ encode_exc = "not run"
            /\ ffmpeg_command = <<>>

C2_Witness ==
    /\ Len(audio_paths) = 3
    /\ Len(probe_log) = 2
    /\ probe_log[2].exc = "ValueError"
    /\ pc = "done"

\* C3: the run exits with status 0 exactly when validation passed, every
\* probe returned a duration and ffmpeg was started and exited 0; every
\* other finished run has status 1, and a run that wrote a diagnostic
\* never exits 0.
C3_ExitZeroIffEverythingSucceeded ==
    /\ (pc = "done") <=> (exit_status # NotExited)
    /\ pc = "done" =>
        /\ exit_status \in {0, 1}
        /\ (exit_status = 0) <=>
              /\ ~InputsInvalid
              /\ Len(probe_log) = Len(audio_paths)
              /\ \A j \in 1..Len(probe_log) : probe_log[j].exc = "none"
              /\ encode_exc = "none"
        /\ stderr # <<>> => exit_status = 1

C3_Witness ==
    /\ pc = "done"
    /\ exit_status = 0
    /\ Len(audio_paths) = 2

\* C4: whenever ffprobe exits 0 but no duration can be read from its
\* output (not JSON, format.duration absent, or not a decimal number), the
\* run ends with exit status 1 and the last diagnostic is the parse error
\* naming the probed file.
C4_UnusableProbeOutputIsAParseError ==
    \A j \in 1..Len(probe_log) :
        (probe_log[j].stdout # 0 /\ probe_log[j].exc # "none") =>
            /\ pc = "done"
            /\ exit_status = 1
            /\ stderr # <<>>
            /\ stderr[Len(stderr)].msg = "Error parsing ffprobe output for"
            /\ stderr[Len(stderr)].file = probe_log[j].file

\* What str(float(...)) gives for the two well-formed sample outputs of
\* ProbeStdouts.
ExpectedSeconds(o) ==
    CASE o = 1 -> <<"5", ".", "0">>
      [] o = 2 -> <<"7", ".", "5">>

\* C5: the argument list holds exactly 2N "-i" inputs: input k < N is the
\* image declaration of image k, whose -t value is the duration probed for
\* the audio file at the same position k; input N+k is the plain
\* declaration of audio file k; images come first, both in input order.
C5_InputDeclarations ==
    Built =>
        LET N == Len(image_paths)
            cmd == ffmpeg_command
        IN  /\ cmd[1] = <<"f", "f", "m", "p", "e", "g">>
            /\ Cardinality(InputPositions(cmd)) = 2 * N
            /\ Len(probe_log) = N
            /\ \A k \in 0..(N - 1) :
                  LET p == NthInput(cmd, k)
                  IN  /\ p = 6 * k + 6
                      /\ IsImageDeclaration(cmd, p)
                      /\ cmd[p + 1] = image_paths[k + 1]
                      /\ probe_log[k + 1].file = audio_paths[k + 1]
                      /\ cmd[p - 1] = ExpectedSeconds(probe_log[k + 1].stdout)
            /\ \A k \in N..(2 * N - 1) :
                  LET p == NthInput(cmd, k)
                  IN  /\ p = 6 * N + 2 * (k - N) + 2
                      /\ ~IsImageDeclaration(cmd, p)
                      /\ cmd[p + 1] = audio_paths[k - N + 1]
            /\ cmd[8 * N + 2] = <<"-", "f", "i", "l", "t", "e", "r", "_", "c", "o", "m", "p", "l", "e", "x">>

C5_Witness ==
    /\ Built
    /\ Len(image_paths) = 2
    /\ probe_log[1].stdout = 1
    /\ probe_log[2].stdout = 2
    /\ ffmpeg_command[5] = <<"5", ".", "0">>
    /\ ffmpeg_command[11] = <<"7", ".", "5">>

\* The labels [first:kind][first+1:kind]... of count consecutive inputs.
RECURSIVE StreamLabels(_, _, _)
StreamLabels(first, count, kind) ==
    IF count = 0 THEN <<>>
    ELSE <<"[">> \o IntStr(first) \o <<":", kind, "]">>
         \o StreamLabels(first + 1, count - 1, kind)

\* Positions where a "; " starts.
TerminatorPositions(f) ==
    {p \in 1..(Len(f) - 1) : f[p] = ";" /\ f[p + 1] = " "}

\* C6: the filter expression starts with [0:v]...[N-1:v]concat=n=N:v=1:a=0
\* and its second clause starts with [N:a]...[2N-1:a]concat=n=N:v=0:a=1;
\* each index 0..N-1 is the input index of an image declaration and each
\* index N..2N-1 the input index of an audio declaration.
C6_ConcatClausesReferenceTheInputs ==
    Built =>
        LET N == Len(image_paths)
            f == filter_complex
            cmd == ffmpeg_command
            first == CHOOSE p \in TerminatorPositions(f) :
                        \A q \in TerminatorPositions(f) : p <= q
        IN  /\ StartsWith(f, StreamLabels(0, N, "v")
                             \o <<"c", "o", "n", "c", "a", "t", "=", "n", "=">> \o IntStr(N) \o <<":", "v", "=", "1", ":", "a", "=", "0">>)
            /\ TerminatorPositions(f) # {}
            /\ StartsWith(SubSeq(f, first + 2, Len(f)),
                          StreamLabels(N, N, "a")
                          \o <<"c", "o", "n", "c", "a", "t", "=", "n", "=">> \o IntStr(N) \o <<":", "v", "=", "0", ":", "a", "=", "1">>)
            /\ Cardinality(InputPositions(cmd)) = 2 * N
            /\ \A k \in 0..(N - 1) :
                  /\ IsImageDeclaration(cmd, NthInput(cmd, k))
                  /\ cmd[NthInput(cmd, k) + 1] \in {image_paths[i] : i \in 1..N}
            /\ \A k \in N..(2 * N - 1) :
                  /\ ~IsImageDeclaration(cmd, NthInput(cmd, k))
                  /\ cmd[NthInput(cmd, k) + 1] \in {audio_paths[i] : i \in 1..N}

C6_Witness ==
    /\ Built
    /\ Len(image_paths) = 3
    /\ StartsWith(filter_complex, <<"[", "0", ":", "v", "]", "[", "1", ":", "v", "]", "[", "2", ":", "v", "]", "c", "o", "n", "c", "a", "t", "=", "n", "=", "3", ":", "v", "=", "1", ":", "a", "=", "0">>)
    /\ Contains(filter_complex, <<"[", "3", ":", "a", "]", "[", "4", ":", "a", "]", "[", "5", ":", "a", "]", "c", "o", "n", "c", "a", "t", "=", "n", "=", "3", ":", "v", "=", "0", ":", "a", "=", "1">>)

\* The split of a filter expression into four clauses: video concat, audio
\* concat, text overlay and merge, the first three each closed by "; ".
FourClauses(f, p1, p2, p3) ==
    LET c1 == SubSeq(f, 1, p1 + 1)
        c2 == SubSeq(f, p1 + 2, p2 + 1)
        c3 == SubSeq(f, p2 + 2, p3 + 1)
        c4 == SubSeq(f, p3 + 2, Len(f))
    IN  /\ p1 < p2 /\ p2 < p3
        /\ StartsWith(c1, <<"[", "0", ":", "v", "]">>)
        /\ EndsWith(c1, <<"[", "v", "_", "s", "l", "i", "d", "e", "s", "h", "o", "w", "]">> \o <<";", " ">>)
        /\ Contains(c1, <<":", "v", "=", "1", ":", "a", "=", "0">>)
        /\ EndsWith(c2, <<"[", "a", "_", "c", "o", "m", "b", "i", "n", "e", "d", "]">> \o <<";", " ">>)
        /\ Contains(c2, <<":", "v", "=", "0", ":", "a", "=", "1">>)
        /\ StartsWith(c3, <<"[", "v", "_", "s", "l", "i", "d", "e", "s", "h", "o", "w", "]">> \o <<"d", "r", "a", "w", "t", "e", "x", "t", "=">>)
        /\ EndsWith(c3, <<"[", "v", "_", "t", "e", "x", "t", "]">> \o <<";", " ">>)
        /\ StartsWith(c4, <<"[", "v", "_", "t", "e", "x", "t", "]">> \o <<"[", "a", "_", "c", "o", "m", "b", "i", "n", "e", "d", "]">>)
        /\ EndsWith(c4, <<"=", "s", "h", "o", "r", "t", "e", "s", "t", "=", "1">>)

\* C8 as stated: four clauses in the order video, audio, text, merge, and
\* the merge clause too ends with "; ".
C8_AllFourClausesTerminated ==
    Built =>
        /\ \E p1, p2, p3 \in TerminatorPositions(filter_complex) :
              FourClauses(filter_complex, p1, p2, p3)
        /\ EndsWith(filter_complex, <<";", " ">>)

\* C8 amended: four clauses in the order video, audio, text, merge; the
\* first three each end with "; " and the merge clause ends the expression
\* with "=shortest=1", without a terminator.
C8_FourClausesThreeTerminated ==
    Built =>
        /\ \E p1, p2, p3 \in TerminatorPositions(filter_complex) :
              FourClauses(filter_complex, p1, p2, p3)
        /\ ~EndsWith(filter_complex, <<";", " ">>)

C8_Witness ==
    /\ Built
    /\ text_content = <<"a", ";", " ">>
    /\ Cardinality(TerminatorPositions(filter_complex)) = 4

\* The calls a successful run makes: one probe per audio file in input
\* order, then the encode.
ExpectedInvocations ==
    [i \in 1..Len(audio_paths) |-> [tool |-> "ffprobe", file |-> audio_paths[i]]]
    \o <<[tool |-> "ffmpeg", file |-> <<>>]>>

\* The position in the pipeline Validate -> Probe* -> BuildGraph -> Encode
\* -> {Success | Fail}; every probe has its own two positions.
Rank ==
    CASE pc = "validate" -> 0
      [] pc = "probe"    -> 1 + 2 * Len(audio_durations)
      [] pc = "probing"  -> 2 + 2 * Len(audio_durations)
      [] pc = "build"    -> 1 + 2 * Len(audio_paths)
      [] pc = "encode"   -> 2 + 2 * Len(audio_paths)
      [] pc = "encoding" -> 3 + 2 * Len(audio_paths)
      [] pc = "done"     -> 4 + 2 * Len(audio_paths)

C9_Sequential ==
    /\ running \in {0, 1}
    /\ running = 1 <=> pc \in {"probing", "encoding"}
    /\ Len(invocations) <= Len(ExpectedInvocations)
    /\ invocations = SubSeq(ExpectedInvocations, 1, Len(invocations))
    /\ (Len(invocations) = Len(ExpectedInvocations)) =>
          /\ Len(audio_durations) = Len(audio_paths)
          /\ Len(probe_log) = Len(audio_paths)
    /\ (pc = "done" /\ exit_status = 0) => invocations = ExpectedInvocations

C9_Forward == pc # "done" /\ Rank' > Rank

\* C9: at most one child process exists at any time; the calls made are
\* always a prefix of probe(audio[0]), ..., probe(audio[N-1]), encode, and
\* the whole of it on success; the encode is called only after all N
\* probes returned; every step moves to a later position of the pipeline
\* and no step leaves the final position.
C9_ForwardOnlyPipeline == []C9_Sequential /\ [][C9_Forward]_vars

C9_Witness ==
    /\ pc = "done"
    /\ exit_status = 0
    /\ Len(audio_paths) = 3
    /\ invocations = ExpectedInvocations

TextSpecials == {"'", ":", "[", "]", ","}

\* Removing every backslash that stands right before a special character.
RECURSIVE DeleteInsertedBackslashes(_)
DeleteInsertedBackslashes(e) ==
    IF e = <<>> THEN <<>>
    ELSE IF Head(e) = "\\" /\ Len(e) >= 2 /\ e[2] \in TextSpecials
    THEN <<e[2]>> \o DeleteInsertedBackslashes(SubSeq(e, 3, Len(e)))
    ELSE <<Head(e)>> \o DeleteInsertedBackslashes(Tail(e))

\* C7: the escaped text is the text with one backslash put before each
\* apostrophe, colon, bracket and comma and nothing else changed
\* (backslashes of the text included); removing those backslashes gives
\* the text back.
C7_TextEscaping ==
    pc = "escaped" =>
        LET t == text_content
            e == escaped_text_content
        IN  /\ e = Join([i \in 1..Len(t) |->
                            IF t[i] \in TextSpecials
                            THEN <<"\\", t[i]>> ELSE <<t[i]>>])
            /\ \A p \in 1..Len(e) :
                  e[p] \in TextSpecials => (p > 1 /\ e[p - 1] = "\\")
            /\ Len(e) = Len(t)
                        + Cardinality({i \in 1..Len(t) : t[i] \in TextSpecials})
            /\ DeleteInsertedBackslashes(e) = t

C7_Witness ==
    /\ pc = "escaped"
    /\ text_content = <<"\\", ":", "'">>
    /\ escaped_text_content = <<"\\", "\\", ":", "\\", "'">>

\* The word a POSIX shell reads from a quoted string.
RECURSIVE ShellRead(_, _)
ShellRead(s, mode) ==
    IF s = <<>> THEN <<>>
    ELSE LET c == Head(s)
             r == Tail(s)
         IN  CASE mode = "plain" /\ c = "'" -> ShellRead(r, "single")
               [] mode = "plain" /\ c = "\"" -> ShellRead(r, "double")
               [] mode = "plain" /\ c = "\\" /\ r # <<>> ->
                     <<Head(r)>> \o ShellRead(Tail(r), "plain")
               [] mode = "single" /\ c = "'" -> ShellRead(r, "plain")
               [] mode = "double" /\ c = "\"" -> ShellRead(r, "plain")
               [] OTHER -> <<c>> \o ShellRead(r, mode)

\* C10: the escaped font path is the shell-quoted font path (a string a
\* shell reads back as the font path) with one backslash put before each
\* of its apostrophes and backslashes and nothing else changed.
C10_FontEscaping ==
    pc = "escaped" =>
        LET q == ShlexQuote(font_file)
            e == escaped_font_file
        IN  /\ ShellRead(q, "plain") = font_file
            /\ e = Join([i \in 1..Len(q) |->
                            IF q[i] \in {"'", "\\"}
                            THEN <<"\\", q[i]>> ELSE <<q[i]>>])
            /\ Len(e) = Len(q)
                        + Cardinality({i \in 1..Len(q) : q[i] \in {"'", "\\"}})

C10_Witness ==
    /\ pc = "escaped"
    /\ font_file = <<"f", "'", "\\">>
    /\ escaped_font_file = <<"\\", "'", "f", "\\", "'", "\"", "\\", "'", "\"", "\\", "'", "\\", "\\", "\\", "'">>
====
